---- MODULE Spec2Model ----
(***************************************************************************)
(* Model of convert.py: the ARM2AssemblyConverter class (opcode table      *)
(* loader, label collector, line annotator) and the command line driver.   *)
(*                                                                         *)
(* A Python str is a sequence of one-character strings.  The text that     *)
(* convert returns is a sequence of atoms: an atom is either one character *)
(* copied from the input (or produced by the '<' escape), or one literal   *)
(* piece of markup of an f-string, or a Category/Description cell of the   *)
(* opcode table.  Concatenating the atoms gives the Python string.         *)
(***************************************************************************)
EXTENDS Naturals, Sequences, FiniteSets

(***************************************************************************)
(* Bounds of the model.                                                    *)
(***************************************************************************)
MaxLen == 3
MaxLenCalls == 2

(***************************************************************************)
(* Characters.                                                             *)
(***************************************************************************)
NL == "\n"
Alphabet == {".", "A", "a", " ", ";", "<", NL}
CallsAlphabet == {".", "A", NL}

\* str.isspace / the regex class \s
IsSpace(c) == c \in {" ", NL}

\* the regex class \w
IsWord(c) == c \in {"A", "a", "l", "t", "L", "T"}

\* the delimiter class of the tokenizer, [\s:,#\(\)\"]
IsDelim(c) == IsSpace(c) \/ c \in {":", ",", "#", "(", ")", "\""}

\* str.upper on one character
UpperChar(c) ==
    CASE c = "a" -> "A"
      [] c = "l" -> "L"
      [] c = "t" -> "T"
      [] OTHER -> c

Upper(s) == [k \in 1..Len(s) |-> UpperChar(s[k])]

(***************************************************************************)
(* String helpers: str.strip, str.split, str.replace, str.join.            *)
(***************************************************************************)
RECURSIVE LStrip(_)
LStrip(s) == IF s # <<>> /\ IsSpace(Head(s)) THEN LStrip(Tail(s)) ELSE s

RECURSIVE RStrip(_)
RStrip(s) ==
    IF s # <<>> /\ IsSpace(s[Len(s)]) THEN RStrip(SubSeq(s, 1, Len(s) - 1)) ELSE s

Strip(s) == RStrip(LStrip(s))

\* text.split('\n')
SplitLines(s) ==
    LET seps == {k \in 1..Len(s) : s[k] = NL}
        n == Cardinality(seps) + 1
        cut(j) == IF j = 0 THEN 0
                  ELSE IF j = n THEN Len(s) + 1
                  ELSE CHOOSE k \in seps : Cardinality({h \in seps : h < k}) = j - 1
    IN  [j \in 1..n |-> SubSeq(s, cut(j - 1) + 1, cut(j) - 1)]

\* '\n'.join(lines)
RECURSIVE JoinLines(_)
JoinLines(ls) ==
    IF ls = <<>> THEN <<>>
    ELSE IF Len(ls) = 1 THEN ls[1]
    ELSE ls[1] \o <<NL>> \o JoinLines(Tail(ls))

FindLast(s, p) ==
    LET Hits == {k \in 1..(Len(s) - Len(p) + 1) : SubSeq(s, k, k + Len(p) - 1) = p}
    IN  IF Len(p) > Len(s) \/ Hits = {} THEN 0
        ELSE CHOOSE k \in Hits : \A h \in Hits : k >= h

\* position of the first occurrence of p in s, 0 when there is none
FindFirst(s, p) ==
    LET Hits == {k \in 1..(Len(s) - Len(p) + 1) : SubSeq(s, k, k + Len(p) - 1) = p}
    IN  IF Len(p) > Len(s) \/ Hits = {} THEN 0
        ELSE CHOOSE k \in Hits : \A h \in Hits : k <= h

EscapeNone(s) == s

\* code_part.replace('<', '&lt;')
RECURSIVE Escape(_)
Escape(s) ==
    IF s = <<>> THEN <<>>
    ELSE (IF Head(s) = "<" THEN <<"&", "l", "t", ";">> ELSE <<Head(s)>>)
         \o Escape(Tail(s))

RECURSIVE Flatten(_)
Flatten(ss) == IF ss = <<>> THEN <<>> ELSE Head(ss) \o Flatten(Tail(ss))

(***************************************************************************)
(* re.split(r'([\s:,#\(\)\"]+)', line): the parts between the runs of      *)
(* delimiters and the runs themselves, alternating, starting and ending    *)
(* with a (possibly empty) non-delimiter part.                             *)
(***************************************************************************)
RECURSIVE RunLen(_, _)
RunLen(s, delim) ==
    IF s # <<>> /\ (IsDelim(Head(s)) <=> delim) THEN 1 + RunLen(Tail(s), delim) ELSE 0

RECURSIVE SplitParts(_)
SplitParts(s) ==
    LET n == RunLen(s, FALSE)
        rest == SubSeq(s, n + 1, Len(s))
        d == RunLen(rest, TRUE)
    IN  IF rest = <<>> THEN <<SubSeq(s, 1, n)>>
        ELSE <<SubSeq(s, 1, n), SubSeq(rest, 1, d)>>
             \o SplitParts(SubSeq(rest, d + 1, Len(rest)))

(***************************************************************************)
(* re.match(r'^(\.\w+)', s.strip()) followed by group(1).replace(".", ""): *)
(* the label name, or the empty sequence when the pattern does not match.  *)
(***************************************************************************)
RECURSIVE WordRun(_)
WordRun(s) ==
    IF s # <<>> /\ IsWord(Head(s)) THEN <<Head(s)>> \o WordRun(Tail(s)) ELSE <<>>

LabelMatch(s) ==
    LET t == Strip(s)
    IN  IF t # <<>> /\ Head(t) = "." THEN WordRun(Tail(t)) ELSE <<>>

(***************************************************************************)
(* The opcode table file: a sequence of CSV rows.                          *)
(***************************************************************************)
Mnemonics == {<<"A">>, <<"a">>, <<".", "A">>}

CategoryOf(m) ==
    CASE m = <<"A">> -> "Data Movement"
      [] m = <<"a">> -> "Branch"
      [] OTHER -> "Directive"

DescriptionOf(m) ==
    CASE m = <<"A">> -> "Move value"
      [] m = <<"a">> -> "Branch always"
      [] OTHER -> "Define word"

Rows == {[Mnemonic |-> m, Category |-> CategoryOf(m), Description |-> DescriptionOf(m)] :
            m \in Mnemonics}

SeqsUpTo(S, n) == UNION {[1..k -> S] : k \in 0..n}

RowOf(m) == [Mnemonic |-> m, Category |-> CategoryOf(m), Description |-> DescriptionOf(m)]

\* the opcode table files tried: no row, one row, and two pairs of rows
Tables == {<<>>} \cup {<<r>> : r \in Rows}
              \cup {<<RowOf(<<".", "A">>), RowOf(<<"A">>)>>, <<RowOf(<<"a">>), RowOf(<<"A">>)>>}
Prefixes == {<<";">>, <<".">>, <<>>}

\* lines of assembly programs, and the programs of two such lines
KeyLines ==
    {<<>>, <<" ">>, <<".", "A">>, <<".", "a">>, <<"A">>, <<"a">>,
     <<".", "A", ":">>, <<" ", "A", ",", "a">>, <<".", "A", ";", "<">>, <<"<", "A", ";">>}

TwoLinePrograms == {first \o <<NL>> \o second : first \in KeyLines, second \in KeyLines}

\* the texts given to convert: every text of up to MaxLen characters, and the programs
Texts == SeqsUpTo(Alphabet, MaxLen) \cup TwoLinePrograms

(***************************************************************************)
(* ARM2AssemblyConverter._load_opcode_info: the dict built from the rows,  *)
(* a later row overwriting an earlier one with the same key.               *)
(***************************************************************************)
NormKeyRaw(mnemonic, case_sensitive) == mnemonic

NormKey(mnemonic, case_sensitive) ==
    IF ~case_sensitive THEN Upper(mnemonic) ELSE mnemonic

LoadOpcodeInfo(rows, case_sensitive) ==
    LET Key(k) == NormKey(rows[k].Mnemonic, case_sensitive)
        Keys == {Key(k) : k \in 1..Len(rows)}
        Last(m) == CHOOSE k \in 1..Len(rows) :
                       Key(k) = m /\ \A h \in (k + 1)..Len(rows) : Key(h) # m
    IN  [m \in Keys |-> [type |-> rows[Last(m)].Category,
                         description |-> rows[Last(m)].Description]]

(***************************************************************************)
(* ARM2AssemblyConverter._collect_labels: the keys of the dict returned.   *)
(***************************************************************************)
LabelNameKeepDot(line) ==
    IF LabelMatch(line) = <<>> THEN <<>> ELSE <<".">> \o LabelMatch(line)

LabelName(line) == LabelMatch(line)

CollectLabels(assembly_code) ==
    LET lines == SplitLines(assembly_code)
    IN  {LabelName(lines[k]) : k \in {j \in 1..Len(lines) : LabelName(lines[j]) # <<>>}}

(***************************************************************************)
(* The f-strings of _process_line and convert.                             *)
(***************************************************************************)
LabelSpan(label, part) ==
    <<"<span class=\"label\"><a id=\"">> \o label \o <<"\" data-type=\"Label\">">>
        \o part \o <<"</a></span>">>

OpcodeSpan(info, part) ==
    <<"<span data-type=\"", info.type, "\" data-description=\"", info.description,
      "\"title=\"", info.description, "\">">> \o part \o <<"</span>">>

BranchSpan(part) ==
    <<"<span class=\"branch\"><a data-type=\"Branch\" href=\"#">> \o part
        \o <<"\">">> \o part \o <<"</a></span>">>

PlainSpan(part) == <<"<span>">> \o part \o <<"</span>">>

CommentSpan(prefix, comment_part) ==
    <<"<span class=\"comment\" data-type=\"Comment\">">> \o prefix \o comment_part
        \o <<"</span>">>

(***************************************************************************)
(* ARM2AssemblyConverter._process_line.  self is the converter: a record   *)
(* of wrap_comments, comment_prefix, case_sensitive, opcode_info, labels.  *)
(***************************************************************************)
NormPart(part, case_sensitive) ==
    IF ~case_sensitive THEN Upper(Strip(part)) ELSE Strip(part)

ProcessPartBranchFirst(self, part) ==
    LET norm_part == NormPart(part, self.case_sensitive)
        label == LabelMatch(part)
    IN  IF label # <<>> THEN LabelSpan(label, part)
        ELSE IF part \in self.labels THEN BranchSpan(part)
        ELSE IF norm_part \in DOMAIN self.opcode_info
             THEN OpcodeSpan(self.opcode_info[norm_part], part)
        ELSE PlainSpan(part)

ProcessPart(self, part) ==
    LET norm_part == NormPart(part, self.case_sensitive)
        label == LabelMatch(part)
    IN  IF label # <<>> THEN LabelSpan(label, part)
        ELSE IF norm_part \in DOMAIN self.opcode_info
             THEN OpcodeSpan(self.opcode_info[norm_part], part)
        ELSE IF part \in self.labels THEN BranchSpan(part)
        ELSE PlainSpan(part)

ProcessedParts(self, line) ==
    LET parts == SplitParts(line)
    IN  [k \in 1..Len(parts) |-> ProcessPart(self, parts[k])]

ProcessLine(self, line) == Flatten(ProcessedParts(self, line))

(***************************************************************************)
(* ARM2AssemblyConverter.convert, one line of the loop.                    *)
(***************************************************************************)
IsBlank(line) == Strip(line) = <<>>

HasComment(self, line) == FindFirst(line, self.comment_prefix) # 0

CodePart(self, line) ==
    IF HasComment(self, line)
    THEN SubSeq(line, 1, FindFirst(line, self.comment_prefix) - 1)
    ELSE line

CommentPart(self, line) ==
    SubSeq(line, FindFirst(line, self.comment_prefix) + Len(self.comment_prefix), Len(line))

EscapedCode(self, line) == Escape(CodePart(self, line))

RenderComment(self, line) ==
    IF ~HasComment(self, line) THEN <<>>
    ELSE IF self.wrap_comments
         THEN CommentSpan(self.comment_prefix, CommentPart(self, line))
         ELSE self.comment_prefix \o CommentPart(self, line)

ConvertLineNoBlankCheck(self, line) ==
    <<"<span>">> \o ProcessLine(self, EscapedCode(self, line))
        \o RenderComment(self, line) \o <<"</span>">>

ConvertLine(self, line) ==
    IF IsBlank(line) THEN <<"<span>">> \o line \o <<"</span>">>
    ELSE <<"<span>">> \o ProcessLine(self, EscapedCode(self, line))
             \o RenderComment(self, line) \o <<"</span>">>

\* str.split raises ValueError("empty separator") on the first non-blank line
ConvertRaises(self, assembly_code) ==
    LET lines == SplitLines(assembly_code)
    IN  self.comment_prefix = <<>> /\ \E k \in 1..Len(lines) : ~IsBlank(lines[k])

ProcessedLinesSkipBlank(self, assembly_code) ==
    LET lines == SelectSeq(SplitLines(assembly_code), LAMBDA l : ~IsBlank(l))
    IN  [k \in 1..Len(lines) |-> ConvertLine(self, lines[k])]

ProcessedLines(self, assembly_code) ==
    LET lines == SplitLines(assembly_code)
    IN  [k \in 1..Len(lines) |-> ConvertLine(self, lines[k])]

\* the value convert returns, or the exception it ends with
ConvertResult(self, assembly_code) ==
    IF ConvertRaises(self, assembly_code)
    THEN [status |-> "raised", out |-> <<>>]
    ELSE [status |-> "returned", out |-> JoinLines(ProcessedLines(self, assembly_code))]

(***************************************************************************)
(* State.  class_labels is the class attribute ARM2AssemblyConverter.labels*)
(* (the dict's keys); conv[i] holds the attributes of converter object i,  *)
(* own_labels telling whether the object has an attribute labels of its    *)
(* own; csv[i] is the content of the opcode table file object i was built  *)
(* from; input[i] and result[i] are the argument and the outcome of the    *)
(* last convert call on object i.  The remaining variables are the state   *)
(* of one run of main and of the files it touches.                         *)
(***************************************************************************)
VARIABLES class_labels, conv, csv, input, result,
          pc, args, in_file, csv_file, out_target, assembly_code, out_file,
          exit_code, message

conv_vars == <<class_labels, conv, csv, input, result>>
cli_vars == <<pc, args, in_file, csv_file, out_target, assembly_code, out_file,
              exit_code, message>>
vars == <<class_labels, conv, csv, input, result,
          pc, args, in_file, csv_file, out_target, assembly_code, out_file,
          exit_code, message>>

Instances == {1, 2}

NoConverter ==
    [made |-> FALSE, wrap_comments |-> TRUE, comment_prefix |-> <<";">>,
     case_sensitive |-> FALSE, opcode_info |-> <<>>, own_labels |-> FALSE, labels |-> {}]

NoResult == [status |-> "none", out |-> <<>>]

NoDocument == [toc |-> {}, annotated_code |-> <<>>]

NoArgs == [no_comment_wrap |-> FALSE, comment_prefix |-> <<";">>, case_sensitive |-> FALSE]

ConvInit ==
    /\ class_labels = {}
    /\ conv = [i \in Instances |-> NoConverter]
    /\ csv = [i \in Instances |-> <<>>]
    /\ input = [i \in Instances |-> <<>>]
    /\ result = [i \in Instances |-> NoResult]

CliIdle ==
    /\ pc = "idle"
    /\ args = NoArgs
    /\ in_file = [kind |-> "missing", content |-> <<>>]
    /\ csv_file = [kind |-> "missing", header_ok |-> TRUE, rows |-> <<>>]
    /\ out_target = "ok"
    /\ assembly_code = <<>>
    /\ out_file = [state |-> "untouched", document |-> NoDocument]
    /\ exit_code = "running"
    /\ message = "none"

Init == ConvInit /\ CliIdle

(***************************************************************************)
(* ARM2AssemblyConverter.__init__                                          *)
(***************************************************************************)
NewConverter(wrap_comments, comment_prefix, case_sensitive, rows) ==
    [made |-> TRUE, wrap_comments |-> wrap_comments, comment_prefix |-> comment_prefix,
     case_sensitive |-> case_sensitive,
     opcode_info |-> LoadOpcodeInfo(rows, case_sensitive),
     own_labels |-> FALSE, labels |-> {}]

Construct(i, wrap_comments, comment_prefix, case_sensitive, rows) ==
    /\ ~conv[i].made
    /\ conv' = [conv EXCEPT ![i] =
                    NewConverter(wrap_comments, comment_prefix, case_sensitive, rows)]
    /\ csv' = [csv EXCEPT ![i] = rows]
    /\ UNCHANGED <<class_labels, input, result>>

(***************************************************************************)
(* ARM2AssemblyConverter.convert                                           *)
(***************************************************************************)
\* the attribute lookup self.labels
SelfLabels(c) == IF c.own_labels THEN c.labels ELSE class_labels

AssignLabelsUpdate(held, collected) == held \cup collected

\* self.labels = self._collect_labels(assembly_code)
AssignLabels(held, collected) == collected

AfterCollect(c, text) ==
    [c EXCEPT !.own_labels = TRUE,
              !.labels = AssignLabels(SelfLabels(c), CollectLabels(text))]

Convert(i, text) ==
    /\ conv[i].made
    /\ LET self == AfterCollect(conv[i], text)
       IN  /\ conv' = [conv EXCEPT ![i] = self]
           /\ result' = [result EXCEPT ![i] = ConvertResult(self, text)]
    /\ input' = [input EXCEPT ![i] = text]
    /\ UNCHANGED <<class_labels, csv>>

(***************************************************************************)
(* Spec: one converter, any configuration, one convert call on any text.   *)
(***************************************************************************)
ConstructAny ==
    /\ \E w \in BOOLEAN, p \in Prefixes, cs \in BOOLEAN, rows \in Tables :
           Construct(1, w, p, cs, rows)
    /\ UNCHANGED cli_vars

ConvertOnce ==
    /\ conv[1].made
    /\ result[1].status = "none"
    /\ \E text \in Texts : Convert(1, text)
    /\ UNCHANGED cli_vars

Next == ConstructAny \/ ConvertOnce

Spec == Init /\ [][Next]_vars

(***************************************************************************)
(* SpecCalls: two converters with the default flags, any sequence of       *)
(* convert calls on them.                                                  *)
(***************************************************************************)
CallTexts == SeqsUpTo(CallsAlphabet, MaxLenCalls)
CallTables == {<<>>, <<[Mnemonic |-> <<"A">>, Category |-> CategoryOf(<<"A">>),
                        Description |-> DescriptionOf(<<"A">>)]>>}

ConstructCall ==
    /\ \E i \in Instances, rows \in CallTables : Construct(i, TRUE, <<";">>, FALSE, rows)
    /\ UNCHANGED cli_vars

ConvertCall ==
    /\ \E i \in Instances, text \in CallTexts : Convert(i, text)
    /\ UNCHANGED cli_vars

NextCalls == ConstructCall \/ ConvertCall

SpecCalls == Init /\ [][NextCalls]_vars

(***************************************************************************)
(* main: one run of the command line driver, step by step.  in_file,       *)
(* csv_file and out_target are the files the three paths name: in_file and *)
(* csv_file are missing, unreadable or readable; out_target tells what     *)
(* opening and writing the output path will do.  out_file is the output    *)
(* file: untouched, truncated by open(..., 'w'), or written.               *)
(***************************************************************************)
ArgSets == [no_comment_wrap : BOOLEAN, comment_prefix : Prefixes, case_sensitive : BOOLEAN]

InFiles == {[kind |-> k, content |-> <<>>] : k \in {"missing", "unreadable"}}
               \cup {[kind |-> "ok", content |-> t] : t \in CallTexts}

CsvFiles == {[kind |-> k, header_ok |-> TRUE, rows |-> <<>>] : k \in {"missing", "unreadable"}}
                \cup {[kind |-> "ok", header_ok |-> h, rows |-> t] :
                         h \in BOOLEAN, t \in CallTables}

OutTargets == {"ok", "missing_dir", "denied", "write_fails"}

InitCLI ==
    /\ ConvInit
    /\ pc = "read_input"
    /\ args \in ArgSets
    /\ in_file \in InFiles
    /\ csv_file \in CsvFiles
    /\ out_target \in OutTargets
    /\ assembly_code = <<>>
    /\ out_file = [state |-> "untouched", document |-> NoDocument]
    /\ exit_code = "running"
    /\ message = "none"

\* the except clauses: print the message, sys.exit(1)
ExitWith(kind) ==
    /\ pc' = "exited"
    /\ exit_code' = "1"
    /\ message' = kind

\* with open(args.input, 'r') as f: assembly_code = f.read()
ReadInput ==
    /\ pc = "read_input"
    /\ IF in_file.kind = "ok"
       THEN /\ assembly_code' = in_file.content
            /\ pc' = "create_converter"
            /\ UNCHANGED <<exit_code, message>>
       ELSE /\ ExitWith(IF in_file.kind = "missing" THEN "Error" ELSE "Unexpected error")
            /\ UNCHANGED assembly_code
    /\ UNCHANGED <<conv_vars, args, in_file, csv_file, out_target, out_file>>

\* row['Mnemonic'] raises KeyError on the first row of a table without the column
CsvLoads == csv_file.kind = "ok" /\ (csv_file.header_ok \/ csv_file.rows = <<>>)

\* converter = ARM2AssemblyConverter(...)
CreateConverter ==
    /\ pc = "create_converter"
    /\ IF CsvLoads
       THEN /\ Construct(1, ~args.no_comment_wrap, args.comment_prefix,
                         args.case_sensitive, csv_file.rows)
            /\ pc' = "convert"
            /\ UNCHANGED <<exit_code, message>>
       ELSE /\ ExitWith(IF csv_file.kind = "missing" THEN "Error" ELSE "Unexpected error")
            /\ UNCHANGED conv_vars
    /\ UNCHANGED <<args, in_file, csv_file, out_target, assembly_code, out_file>>

ConvertStepSwallow ==
    /\ pc = "convert"
    /\ Convert(1, assembly_code)
    /\ pc' = "open_output"
    /\ UNCHANGED <<exit_code, message>>
    /\ UNCHANGED <<args, in_file, csv_file, out_target, assembly_code, out_file>>

\* annotated_code = converter.convert(assembly_code)
ConvertStep ==
    /\ pc = "convert"
    /\ Convert(1, assembly_code)
    /\ IF ConvertRaises(conv[1], assembly_code)
       THEN ExitWith("Unexpected error")
       ELSE /\ pc' = "open_output"
            /\ UNCHANGED <<exit_code, message>>
    /\ UNCHANGED <<args, in_file, csv_file, out_target, assembly_code, out_file>>

\* html_code: the table of contents made of converter.labels, and the annotated code
HtmlDocument == [toc |-> SelfLabels(conv[1]), annotated_code |-> result[1].out]

\* with open(args.output, 'w') as f:
OpenOutput ==
    /\ pc = "open_output"
    /\ IF out_target \in {"missing_dir", "denied"}
       THEN /\ ExitWith(IF out_target = "missing_dir" THEN "Error" ELSE "Unexpected error")
            /\ UNCHANGED out_file
       ELSE /\ out_file' = [state |-> "truncated", document |-> NoDocument]
            /\ pc' = "write"
            /\ UNCHANGED <<exit_code, message>>
    /\ UNCHANGED <<conv_vars, args, in_file, csv_file, out_target, assembly_code>>

\* f.write(html_code)
WriteOutput ==
    /\ pc = "write"
    /\ IF out_target = "write_fails"
       THEN /\ ExitWith("Unexpected error")
            /\ UNCHANGED out_file
       ELSE /\ out_file' = [state |-> "written", document |-> HtmlDocument]
            /\ pc' = "report"
            /\ UNCHANGED <<exit_code, message>>
    /\ UNCHANGED <<conv_vars, args, in_file, csv_file, out_target, assembly_code>>

\* print(f"Converted ..."), and main returns
Report ==
    /\ pc = "report"
    /\ pc' = "exited"
    /\ exit_code' = "0"
    /\ message' = "Converted"
    /\ UNCHANGED <<conv_vars, args, in_file, csv_file, out_target, assembly_code, out_file>>

NextCLI ==
    \/ ReadInput
    \/ CreateConverter
    \/ ConvertStep
    \/ OpenOutput
    \/ WriteOutput
    \/ Report

SpecCLI == InitCLI /\ [][NextCLI]_vars

(***************************************************************************)
(* Vocabulary of the properties.                                           *)
(***************************************************************************)
Returned(i) == result[i].status = "returned"
InLines(i) == SplitLines(input[i])
OutLines(i) == SplitLines(result[i].out)

\* the non-blank input lines of the last call on converter i
CodeLines(i) == {k \in 1..Len(InLines(i)) : Strip(InLines(i)[k]) # <<>>}

\* the tokens of the code segment of input line k, and what became of them
TokensOf(i, k) == SplitParts(EscapedCode(conv[i], InLines(i)[k]))
RenderedOf(i, k) == ProcessedParts(conv[i], EscapedCode(conv[i], InLines(i)[k]))

\* output line k is the wrapper around the rendered tokens and the comment
LineIsRendered(i, k) ==
    /\ k \in 1..Len(OutLines(i))
    /\ OutLines(i)[k] = <<"<span>">> \o Flatten(RenderedOf(i, k))
                            \o RenderComment(conv[i], InLines(i)[k]) \o <<"</span>">>

\* the labels declared in a text: lines whose trimmed text starts with '.'
\* followed by word characters
StartsAsLabel(s) == Len(Strip(s)) >= 2 /\ Strip(s)[1] = "." /\ IsWord(Strip(s)[2])
Declared(text) ==
    {WordRun(Tail(Strip(SplitLines(text)[k]))) :
        k \in {j \in 1..Len(SplitLines(text)) : StartsAsLabel(SplitLines(text)[j])}}

IsLabelAnchor(r, label, part) ==
    r = <<"<span class=\"label\"><a id=\"">> \o label \o <<"\" data-type=\"Label\">">>
            \o part \o <<"</a></span>">>

\* the opening of a label anchor with the given id
LabelAnchorOpen(label) ==
    <<"<span class=\"label\"><a id=\"">> \o label \o <<"\" data-type=\"Label\">">>

IsBranchLink(r, label) ==
    r = <<"<span class=\"branch\"><a data-type=\"Branch\" href=\"#">> \o label
            \o <<"\">">> \o label \o <<"</a></span>">>

IsOpcodeSpan(r, category, description, part) ==
    r = <<"<span data-type=\"", category, "\" data-description=\"", description,
          "\"title=\"", description, "\">">> \o part \o <<"</span>">>

IsPlainSpan(r, part) == r = <<"<span>">> \o part \o <<"</span>">>

IsOpcodeKey(i, part) ==
    \E r \in 1..Len(csv[i]) :
        IF conv[i].case_sensitive
        THEN csv[i][r].Mnemonic = Strip(part)
        ELSE Upper(csv[i][r].Mnemonic) = Upper(Strip(part))

HasOpcodeMarkup(r) == r # <<>> /\ r[1] = "<span data-type=\""

CountAtom(s, a) == Cardinality({k \in 1..Len(s) : s[k] = a})

(***************************************************************************)
(* C2 (as stated): the number of output lines equals the number of input   *)
(* lines, the empty input counting as zero lines and producing zero        *)
(* annotated lines.                                                        *)
(***************************************************************************)
C2_CountLines(text) == IF text = <<>> THEN 0 ELSE Len(SplitLines(text))

C2_EmptyInputGivesNoLines ==
    Returned(1) => C2_CountLines(result[1].out) = C2_CountLines(input[1])

(***************************************************************************)
(* C2 (amended): when convert returns, the output has exactly as many      *)
(* lines as input.split('\n') has, the k-th output line being the          *)
(* annotation of the k-th input line; the empty input is one empty line    *)
(* and gives the one output line <span></span>.                            *)
(***************************************************************************)
C2_LineCountPreserved ==
    Returned(1) =>
        /\ Len(OutLines(1)) = Len(InLines(1))
        /\ \A k \in 1..Len(InLines(1)) :
               /\ OutLines(1)[k] # <<>>
               /\ OutLines(1)[k][1] = "<span>"
               /\ OutLines(1)[k][Len(OutLines(1)[k])] = "</span>"
               /\ (IsBlank(InLines(1)[k]) <=>
                      OutLines(1)[k] = <<"<span>">> \o InLines(1)[k] \o <<"</span>">>)
        /\ (input[1] = <<>> => result[1].out = <<"<span>", "</span>">>)

C2_Witness ==
    /\ Returned(1)
    /\ Len(InLines(1)) = 3
    /\ ~IsBlank(InLines(1)[1])
    /\ IsBlank(InLines(1)[2])
    /\ Len(OutLines(1)) = 3

(***************************************************************************)
(* C7: every empty or whitespace-only input line comes out at the same     *)
(* position as <span> + the line verbatim + </span>, nothing else being    *)
(* done to it; an empty line gives exactly <span></span>.                  *)
(***************************************************************************)
C7_BlankLinesVerbatim ==
    Returned(1) =>
        \A k \in 1..Len(InLines(1)) :
            (\A c \in 1..Len(InLines(1)[k]) : IsSpace(InLines(1)[k][c])) =>
                /\ k \in 1..Len(OutLines(1))
                /\ OutLines(1)[k] = <<"<span>">> \o InLines(1)[k] \o <<"</span>">>
                /\ (InLines(1)[k] = <<>> => OutLines(1)[k] = <<"<span>", "</span>">>)

C7_Witness ==
    /\ Returned(1)
    /\ Len(InLines(1)) = 2
    /\ ~IsBlank(InLines(1)[1])
    /\ InLines(1)[2] = <<" ">>
    /\ OutLines(1)[2] = <<"<span>", " ", "</span>">>

(***************************************************************************)
(* C6: a non-blank line that contains the comment prefix is split at the   *)
(* first occurrence of the prefix; the output line is the annotated code   *)
(* segment followed by the comment, which is the prefix and the rest of    *)
(* the line, copied as they are, inside the comment span when wrapping is  *)
(* on and bare when it is off; a line without the prefix has no comment.   *)
(***************************************************************************)
C6_FirstAt(line, prefix, at) ==
    /\ at \in 1..Len(line)
    /\ SubSeq(line, at, at + Len(prefix) - 1) = prefix
    /\ \A h \in 1..(at - 1) : SubSeq(line, h, h + Len(prefix) - 1) # prefix

C6_Comment(wrap, prefix, rest) ==
    IF wrap
    THEN <<"<span class=\"comment\" data-type=\"Comment\">">> \o prefix \o rest
             \o <<"</span>">>
    ELSE prefix \o rest

C6_CommentAppended ==
    Returned(1) =>
        \A k \in CodeLines(1) :
            LET line == InLines(1)[k]
                prefix == conv[1].comment_prefix
                Occurs == \E at \in 1..Len(line) : C6_FirstAt(line, prefix, at)
            IN  /\ k \in 1..Len(OutLines(1))
                /\ \A at \in 1..Len(line) :
                       C6_FirstAt(line, prefix, at) =>
                           OutLines(1)[k] =
                               <<"<span>">>
                               \o ProcessLine(conv[1], Escape(SubSeq(line, 1, at - 1)))
                               \o C6_Comment(conv[1].wrap_comments, prefix,
                                             SubSeq(line, at + Len(prefix), Len(line)))
                               \o <<"</span>">>
                /\ ~Occurs =>
                       OutLines(1)[k] =
                           <<"<span>">> \o ProcessLine(conv[1], Escape(line)) \o <<"</span>">>

C6_Witness ==
    /\ Returned(1)
    /\ ~conv[1].wrap_comments
    /\ conv[1].comment_prefix = <<";">>
    /\ \E k \in CodeLines(1) :
           /\ CountAtom(InLines(1)[k], ";") >= 2
           /\ InLines(1)[k][1] = "A"
           /\ OutLines(1)[k] = <<"<span>", "<span>", "A", "</span>">>
                                   \o Tail(InLines(1)[k]) \o <<"</span>">>

(***************************************************************************)
(* C5: in the output of a non-blank line, the annotated code segment (what *)
(* stands between the outer <span> and the comment) holds no '<' character:*)
(* every '<' of the code segment has become '&lt;', also inside the tokens *)
(* wrapped as label, opcode, branch or plain spans.                        *)
(***************************************************************************)
C5_CodeIsEscaped ==
    Returned(1) =>
        \A k \in CodeLines(1) :
            LET line == InLines(1)[k]
                code == CodePart(conv[1], line)
                tail == RenderComment(conv[1], line) \o <<"</span>">>
                o == IF k \in 1..Len(OutLines(1)) THEN OutLines(1)[k] ELSE <<>>
                annotated == SubSeq(o, 2, Len(o) - Len(tail))
            IN  /\ Len(o) >= 1 + Len(tail)
                /\ o = <<"<span>">> \o annotated \o tail
                /\ CountAtom(annotated, "<") = 0
                /\ CountAtom(annotated, "&") = CountAtom(code, "<") + CountAtom(code, "&")
                /\ \A j \in 1..Len(annotated) :
                       annotated[j] = "&" =>
                           SubSeq(annotated, j, j + 3) = <<"&", "l", "t", ";">>

C5_Witness ==
    /\ Returned(1)
    /\ \E k \in CodeLines(1) :
           /\ CountAtom(CodePart(conv[1], InLines(1)[k]), "<") >= 1
           /\ CountAtom(CommentPart(conv[1], InLines(1)[k]), "<") >= 1
           /\ HasComment(conv[1], InLines(1)[k])
           /\ CountAtom(OutLines(1)[k], "<") >= 1

(***************************************************************************)
(* C3: every token gets exactly one wrapper, the first that applies of     *)
(* label declaration, opcode, branch reference, plain: a token that starts *)
(* with '.' and word characters is a label anchor even when it is an opcode*)
(* key, and a token that is an opcode key and a declared label name is an  *)
(* opcode span, not a branch link.                                         *)
(***************************************************************************)
C3_Kinds(i, part, r) ==
    <<StartsAsLabel(part) /\ IsLabelAnchor(r, WordRun(Tail(Strip(part))), part),
      \E row \in 1..Len(csv[i]) :
          IsOpcodeSpan(r, csv[i][row].Category, csv[i][row].Description, part),
      IsBranchLink(r, part),
      IsPlainSpan(r, part)>>

C3_FirstRule(i, part, declared) ==
    IF StartsAsLabel(part) THEN 1
    ELSE IF IsOpcodeKey(i, part) THEN 2
    ELSE IF part \in declared THEN 3
    ELSE 4

C3_PriorityOrder ==
    Returned(1) =>
        LET declared == Declared(input[1])
        IN  \A k \in CodeLines(1) :
                LET tokens == TokensOf(1, k)
                    rendered == RenderedOf(1, k)
                IN  /\ LineIsRendered(1, k)
                    /\ \A j \in 1..Len(tokens) :
                           LET kinds == C3_Kinds(1, tokens[j], rendered[j])
                               first == C3_FirstRule(1, tokens[j], declared)
                           IN  \A rule \in 1..4 : kinds[rule] <=> rule = first

C3_Witness ==
    /\ Returned(1)
    /\ \E k \in CodeLines(1) : \E j \in 1..Len(TokensOf(1, k)) :
           /\ TokensOf(1, k)[j] \in Declared(input[1])
           /\ IsOpcodeKey(1, TokensOf(1, k)[j])
           /\ HasOpcodeMarkup(RenderedOf(1, k)[j])
    /\ \E k \in CodeLines(1) : \E j \in 1..Len(TokensOf(1, k)) :
           /\ StartsAsLabel(TokensOf(1, k)[j])
           /\ IsOpcodeKey(1, TokensOf(1, k)[j])
           /\ IsLabelAnchor(RenderedOf(1, k)[j], <<"A">>, TokensOf(1, k)[j])
           /\ LineIsRendered(1, k)

(***************************************************************************)
(* C4: opcode matching follows the case flag for table keys and tokens     *)
(* alike.  A token that is not a label declaration gets the category and   *)
(* description of a table row with an equal mnemonic: equal after          *)
(* upper-casing both in the case-insensitive mode, character for character *)
(* in the case-sensitive mode; without such a row it gets no opcode        *)
(* markup.                                                                 *)
(***************************************************************************)
C4_Matches(i, row, part) ==
    IF conv[i].case_sensitive
    THEN csv[i][row].Mnemonic = part
    ELSE Upper(csv[i][row].Mnemonic) = Upper(part)

C4_CaseFlagHonoured ==
    Returned(1) =>
        \A k \in CodeLines(1) :
            LET tokens == TokensOf(1, k)
                rendered == RenderedOf(1, k)
            IN  /\ LineIsRendered(1, k)
                /\ \A j \in 1..Len(tokens) :
                       LET Matching == {row \in 1..Len(csv[1]) :
                                           C4_Matches(1, row, tokens[j])}
                       IN  ~StartsAsLabel(tokens[j]) =>
                               /\ Matching # {} =>
                                      \E row \in Matching :
                                          IsOpcodeSpan(rendered[j], csv[1][row].Category,
                                                       csv[1][row].Description, tokens[j])
                               /\ Matching = {} => ~HasOpcodeMarkup(rendered[j])

C4_Witness ==
    /\ Returned(1)
    /\ ~conv[1].case_sensitive
    /\ Len(csv[1]) = 1
    /\ csv[1][1].Mnemonic = <<"a">>
    /\ \E k \in CodeLines(1) : \E j \in 1..Len(TokensOf(1, k)) :
           /\ TokensOf(1, k)[j] = <<"A">>
           /\ IsOpcodeSpan(RenderedOf(1, k)[j], "Branch", "Branch always", <<"A">>)
           /\ LineIsRendered(1, k)

C10_EveryCollectedLabelHasAnchor ==
    Returned(1) =>
        \A label \in conv[1].labels :
            FindFirst(result[1].out, LabelAnchorOpen(label)) # 0

(***************************************************************************)
(* C8: after any sequence of convert calls on one converter or on several, *)
(* the label set a converter holds is exactly the set of labels declared   *)
(* in the input of its last call, and the outcome of that call is the      *)
(* outcome a freshly constructed converter with the same table and flags   *)
(* gives for that input: no label of an earlier call or of another         *)
(* converter is rendered as a branch link.                                 *)
(***************************************************************************)
C8_Fresh(i) ==
    AfterCollect(NewConverter(conv[i].wrap_comments, conv[i].comment_prefix,
                              conv[i].case_sensitive, csv[i]),
                 input[i])

C8_CallsAreIndependent ==
    /\ class_labels = {}
    /\ \A i \in Instances :
           result[i].status # "none" =>
               /\ conv[i].own_labels
               /\ conv[i].labels = Declared(input[i])
               /\ result[i] = ConvertResult(C8_Fresh(i), input[i])
               /\ \A j \in Instances :
                      \A other \in conv[j].labels \ Declared(input[i]) :
                          FindFirst(result[i].out, BranchSpan(other)) = 0

C8_Witness ==
    /\ conv[1].labels = {}
    /\ input[1] = <<"A">>
    /\ csv[1] = <<>>
    /\ result[1] = [status |-> "returned", out |-> <<"<span>", "<span>", "A", "</span>", "</span>">>]
    /\ conv[2].labels = {<<"A">>}

(***************************************************************************)
(* C9 (as stated): the output file is touched only after the input was     *)
(* read, the table loaded and the conversion done; a run in which one of   *)
(* these fails ends with status 1 and an untouched output file; a run in   *)
(* which all three succeed writes the document and ends with status 0.     *)
(***************************************************************************)
C9_StepsSucceeded ==
    in_file.kind = "ok" /\ conv[1].made /\ result[1].status = "returned"

C9_WrittenOnlyAfterSuccess ==
    /\ out_file.state # "untouched" => C9_StepsSucceeded
    /\ (pc = "exited" /\ ~C9_StepsSucceeded) =>
           exit_code = "1" /\ out_file.state = "untouched"

C9_SuccessMeansDocumentWritten ==
    /\ C9_WrittenOnlyAfterSuccess
    /\ (pc = "exited" /\ C9_StepsSucceeded) =>
           exit_code = "0" /\ out_file.state = "written"

(***************************************************************************)
(* C9 (amended): the output file is touched only after the input was read, *)
(* the table loaded and the conversion done; a run in which one of these   *)
(* fails ends with status 1 and an untouched output file; a run in which   *)
(* all three succeed ends with status 0 and the document written exactly   *)
(* when the output file can be opened and written, and otherwise ends with *)
(* status 1, the output file untouched when it cannot be opened and        *)
(* truncated when the write fails.  A run that has not exited stands at a  *)
(* step of the driver that can be taken.                                   *)
(***************************************************************************)
C9_ExitFollowsOutputWrite ==
    /\ C9_WrittenOnlyAfterSuccess
    /\ (pc = "exited" /\ C9_StepsSucceeded) =>
           /\ out_target = "ok" =>
                  /\ exit_code = "0"
                  /\ out_file = [state |-> "written",
                                 document |-> [toc |-> Declared(in_file.content),
                                               annotated_code |-> result[1].out]]
           /\ out_target \in {"missing_dir", "denied"} =>
                  exit_code = "1" /\ out_file.state = "untouched"
           /\ out_target = "write_fails" =>
                  exit_code = "1" /\ out_file.state = "truncated"
    /\ pc = "exited" => exit_code \in {"0", "1"}
    /\ pc # "exited" =>
           /\ exit_code = "running"
           /\ pc \in {"read_input", "create_converter", "convert", "open_output",
                      "write", "report"}
           /\ pc = "create_converter" => ~conv[1].made
           /\ pc = "convert" => conv[1].made

C9_Witness ==
    /\ pc = "exited"
    /\ C9_StepsSucceeded
    /\ out_target = "missing_dir"
    /\ exit_code = "1"
    /\ message = "Error"
    /\ out_file.state = "untouched"
    /\ Declared(in_file.content) # {}

====
